---- MODULE Spec2Model ----
(***************************************************************************)
(* Model of the two helper classes of the repository:                      *)
(*   WebAPI          (src/my_internet_resource.py)                         *)
(*   MyPreprocessor  (src/my_preprocessor.py)                              *)
(*                                                                         *)
(* A data frame is a record [cols, idx, rows]: the column labels in order, *)
(* the row labels in order, and the rows (each a sequence of cell values,  *)
(* one per column).  Column labels may repeat, as pandas allows.           *)
(* The pandas calls the code makes are modelled by the Pd* operators, by   *)
(* what pandas (>= 2.0, which the ignore_index argument of dropna needs)   *)
(* does on such frames; a Pd* operator that can raise returns              *)
(* [df, err] and the methods propagate err as the code does (no handler).  *)
(* save_df changes nothing of the state modelled here and is left out.     *)
(***************************************************************************)
EXTENDS Integers, Sequences, FiniteSets, TLC

VARIABLES
    my_df,        \* MyPreprocessor.my_df
    my_df_rows,   \* MyPreprocessor.my_df_rows
    raised,       \* whether the last MyPreprocessor call let an exception out
    call,         \* the last MyPreprocessor call: its name and arguments
    pre,          \* my_df and my_df_rows as they were when that call began
    phases,       \* drop_rows: the frame and the counts after each phase
    ncalls,       \* number of MyPreprocessor calls made so far
    my_data,      \* WebAPI.my_data: the stored response
    web           \* the last data_import call: called, returned value, raised

vars == <<my_df, my_df_rows, raised, call, pre, phases, ncalls, my_data, web>>

\* Number of method calls made on one MyPreprocessor instance.
MaxCalls == 3

-----------------------------------------------------------------------------
(* Cell values: Python ints, Python strings and the missing value (NaN).   *)

IntV(k) == [t |-> "int", n |-> k, s |-> ""]
StrV(x) == [t |-> "str", n |-> 0, s |-> x]
NA == [t |-> "na", n |-> 0, s |-> ""]

IsNA(v) == v.t = "na"

\* A keyword argument left at its default (False) or given a value.
NoArg == [some |-> FALSE, val |-> <<>>]
Arg(v) == [some |-> TRUE, val |-> v]

\* Python truth value of a dict, list or str argument: False, {}, [] and ""
\* are all falsy.
Truthy(a) == a.some /\ a.val # <<>>

Range(s) == {s[i] : i \in 1..Len(s)}

\* The elements of s at the positions in K, in order.
KeepAt(s, K) ==
    LET F[i \in 0..Len(s)] ==
            IF i = 0 THEN <<>>
            ELSE IF i \in K THEN Append(F[i - 1], s[i]) ELSE F[i - 1]
    IN  F[Len(s)]

-----------------------------------------------------------------------------
(* Data frames.                                                            *)

\* pd.DataFrame()
EmptyDF == [cols |-> <<>>, idx |-> <<>>, rows |-> <<>>]

\* DataFrame.shape[0]
Shape0(df) == Len(df.idx)

\* DataFrame.empty: any axis of length 0.
PdEmpty(df) == Len(df.cols) = 0 \/ Len(df.idx) = 0

\* default_index(n): RangeIndex 0..n-1.
DefaultIndex(n) == [i \in 1..n |-> i - 1]

\* pd.DataFrame.from_dict(dictionary): keys become columns, in insertion
\* order; the lists (all of one length) become the cells; rows are 0..n-1.
\* A dictionary is a sequence of [key, vals] entries with distinct keys.
PdFromDict(d) ==
    LET n == IF Len(d) = 0 THEN 0 ELSE Len(d[1].vals)
    IN  [cols |-> [c \in 1..Len(d) |-> d[c].key],
         idx  |-> DefaultIndex(n),
         rows |-> [r \in 1..n |-> [c \in 1..Len(d) |-> d[c].vals[r]]]]

\* path.rsplit(".")[-1]: what follows the last "." (the whole path if none).
\* A path is a sequence of one-character strings.
FileExtension(path) ==
    LET dots == {i \in 1..Len(path) : path[i] = "."}
        last == IF dots = {} THEN 0
                ELSE CHOOSE i \in dots : \A j \in dots : j <= i
    IN  SubSeq(path, last + 1, Len(path))

ExtCsv == <<"c", "s", "v">>
ExtXlsx == <<"x", "l", "s", "x">>

PathCsv == <<"a", ".", "c", "s", "v">>
PathXlsx == <<"b", ".", "x", "l", "s", "x">>
PathTxt == <<"c", ".", "t", "x", "t">>

\* The files on disk: what pd.read_csv / pd.read_excel return for a path
\* (header row -> columns, rows labelled 0..n-1).
FileTable(path) ==
    IF path = PathCsv
    THEN PdFromDict(<<[key |-> "x", vals |-> <<IntV(1), IntV(2)>>]>>)
    ELSE PdFromDict(<<[key |-> "y", vals |-> <<StrV("a"), StrV("b")>>],
                      [key |-> "z", vals |-> <<IntV(0), IntV(0)>>]>>)

\* create_df without the "elif dictionary and path" branch.
CreateDfNoBothCheck(df, dictionary, path) ==
    IF ~Truthy(dictionary) /\ ~Truthy(path) THEN df
    ELSE LET d1 == IF Truthy(dictionary) THEN PdFromDict(dictionary.val) ELSE df
         IN  IF Truthy(path)
             THEN IF FileExtension(path.val) = ExtCsv THEN FileTable(path.val)
                  ELSE IF FileExtension(path.val) = ExtXlsx THEN FileTable(path.val)
                  ELSE d1
             ELSE d1

\* MyPreprocessor.create_df: the frame it leaves in self.my_df.
CreateDf(df, dictionary, path) ==
    IF ~Truthy(dictionary) /\ ~Truthy(path) THEN df
    ELSE IF Truthy(dictionary) /\ Truthy(path) THEN df
    ELSE LET d1 == IF Truthy(dictionary) THEN PdFromDict(dictionary.val) ELSE df
         IN  IF Truthy(path)
             THEN IF FileExtension(path.val) = ExtCsv THEN FileTable(path.val)
                  ELSE IF FileExtension(path.val) = ExtXlsx THEN FileTable(path.val)
                  ELSE d1
             ELSE d1

-----------------------------------------------------------------------------
(* The pandas calls of drop_cols, rename_cols, drop_rows and recode.       *)

Ok(df) == [df |-> df, err |-> FALSE]
Err(df) == [df |-> df, err |-> TRUE]

\* df.drop(columns = label, inplace = True): every column carrying the label
\* goes; KeyError when no column carries it.
PdDropColumns(df, label) ==
    IF label \notin Range(df.cols) THEN Err(df)
    ELSE LET K == {j \in 1..Len(df.cols) : df.cols[j] # label}
         IN  Ok([cols |-> KeepAt(df.cols, K),
                 idx  |-> df.idx,
                 rows |-> [r \in 1..Len(df.rows) |-> KeepAt(df.rows[r], K)]])

\* A rename that refuses a new label another column already carries.
PdRenameColumnIfFree(df, key, new) ==
    IF new \in Range(df.cols) THEN df
    ELSE [df EXCEPT !.cols = [j \in 1..Len(df.cols) |->
                                 IF df.cols[j] = key THEN new ELSE df.cols[j]]]

\* df.rename(columns = {key: new}, inplace = True): every column labelled key
\* is relabelled; a key that labels no column is ignored; a new label that
\* another column already carries is accepted.
PdRenameColumn(df, key, new) ==
    [df EXCEPT !.cols = [j \in 1..Len(df.cols) |->
                            IF df.cols[j] = key THEN new ELSE df.cols[j]]]

\* drop_duplicates without ignore_index = True: the kept rows keep their
\* labels.
PdDropDuplicatesKeepIndex(df) ==
    IF PdEmpty(df) THEN df
    ELSE LET K == {i \in 1..Len(df.rows) :
                      \A j \in 1..(i - 1) : df.rows[j] # df.rows[i]}
         IN  [cols |-> df.cols,
              idx  |-> KeepAt(df.idx, K),
              rows |-> KeepAt(df.rows, K)]

\* df.drop_duplicates(inplace = True, ignore_index = True): an empty frame
\* (no columns or no rows) is returned as it is; otherwise the first row of
\* each row content is kept (NaN equal to NaN) and rows are relabelled 0..n-1.
PdDropDuplicates(df) ==
    IF PdEmpty(df) THEN df
    ELSE LET K == {i \in 1..Len(df.rows) :
                      \A j \in 1..(i - 1) : df.rows[j] # df.rows[i]}
         IN  [cols |-> df.cols,
              idx  |-> DefaultIndex(Cardinality(K)),
              rows |-> KeepAt(df.rows, K)]

\* df.dropna(inplace = True, ignore_index = True): rows holding a missing
\* value in any column go; rows are relabelled 0..n-1.
PdDropNa(df) ==
    LET K == {i \in 1..Len(df.rows) :
                 \A c \in 1..Len(df.rows[i]) : ~IsNA(df.rows[i][c])}
    IN  [cols |-> df.cols,
         idx  |-> DefaultIndex(Cardinality(K)),
         rows |-> KeepAt(df.rows, K)]

\* df.drop(index = label, inplace = True): KeyError when no row carries it.
PdDropIndex(df, label) ==
    IF label \notin Range(df.idx) THEN Err(df)
    ELSE LET K == {i \in 1..Len(df.idx) : df.idx[i] # label}
         IN  Ok([cols |-> df.cols,
                 idx  |-> KeepAt(df.idx, K),
                 rows |-> KeepAt(df.rows, K)])

\* df[col_name] for a label that one column carries: that column's values.
Column(df, col_name) ==
    LET j == CHOOSE j \in 1..Len(df.cols) : df.cols[j] = col_name
    IN  [r \in 1..Len(df.rows) |-> df.rows[r][j]]

\* pd.unique(values): the distinct values in order of first appearance
\* (NaN counts as one value).
PdUnique(values) ==
    KeepAt(values, {i \in 1..Len(values) :
                       \A j \in 1..(i - 1) : values[j] # values[i]})

\* The value a dictionary (a sequence of [key, val] entries with distinct
\* keys) gives for v, or v itself when v is no key.
Lookup(dict, v) ==
    IF \E k \in 1..Len(dict) : dict[k].key = v
    THEN dict[CHOOSE k \in 1..Len(dict) : dict[k].key = v].val
    ELSE v

\* A replace that applies the entries one after the other, each to the cells
\* the earlier ones left.
RECURSIVE ReplaceInOrderFrom(_, _, _, _)
ReplaceInOrderFrom(df, col_name, dict, k) ==
    IF k > Len(dict) THEN df
    ELSE ReplaceInOrderFrom(
             [df EXCEPT !.rows =
                 [r \in 1..Len(df.rows) |->
                     [c \in 1..Len(df.cols) |->
                         IF df.cols[c] = col_name /\ df.rows[r][c] = dict[k].key
                         THEN dict[k].val
                         ELSE df.rows[r][c]]]],
             col_name, dict, k + 1)

PdReplaceInOrder(df, col_name, dict) == ReplaceInOrderFrom(df, col_name, dict, 1)

\* df.replace(to_replace = {col_name: dict}, inplace = True): in the columns
\* labelled col_name, every cell equal to a key becomes that key's value; all
\* keys are matched against the cells as they were before the call.
PdReplace(df, col_name, dict) ==
    [df EXCEPT !.rows =
        [r \in 1..Len(df.rows) |->
            [c \in 1..Len(df.cols) |->
                IF df.cols[c] = col_name
                THEN Lookup(dict, df.rows[r][c])
                ELSE df.rows[r][c]]]]

-----------------------------------------------------------------------------
(* MyPreprocessor's methods.  A method's state while it runs is [df, err]: *)
(* err is set by a pandas call that raised, and ends the method.           *)

\* drop_cols without the "if label in self.my_df.columns" test.
DropColsStepUnchecked(st, label) == PdDropColumns(st.df, label)

\* drop_cols: one turn of the loop over labels.
DropColsStep(st, label) ==
    IF label \in Range(st.df.cols)
    THEN PdDropColumns(st.df, label)
    ELSE st

RECURSIVE DropColsFrom(_, _, _)
DropColsFrom(st, labels, i) ==
    IF i > Len(labels) \/ st.err THEN st
    ELSE DropColsFrom(DropColsStep(st, labels[i]), labels, i + 1)

\* MyPreprocessor.drop_cols(labels = labels)
DropCols(df, labels) == DropColsFrom(Ok(df), labels, 1)

\* rename_cols: one turn of the loop over the mapping's keys.
RenameColsStep(st, key, new) ==
    IF key \in Range(st.df.cols)
    THEN Ok(PdRenameColumn(st.df, key, new))
    ELSE st

RECURSIVE RenameColsFrom(_, _, _)
RenameColsFrom(st, labels, i) ==
    IF i > Len(labels) \/ st.err THEN st
    ELSE RenameColsFrom(RenameColsStep(st, labels[i].key, labels[i].val),
                        labels, i + 1)

\* MyPreprocessor.rename_cols(labels = labels); labels is a dictionary, a
\* sequence of [key, val] entries in insertion order with distinct keys.
RenameCols(df, labels) == RenameColsFrom(Ok(df), labels, 1)

\* drop_rows: one turn of the loop over the explicit row labels.
DropRowsStep(st, label) ==
    IF label \in Range(st.df.idx)
    THEN PdDropIndex(st.df, label)
    ELSE st

RECURSIVE DropRowsFrom(_, _, _)
DropRowsFrom(st, labels, i) ==
    IF i > Len(labels) \/ st.err THEN st
    ELSE DropRowsFrom(DropRowsStep(st, labels[i]), labels, i + 1)

\* What drop_rows logs as the number of rows a phase dropped:
\* self.my_df_rows - self.my_df.shape[0].
Reported(rows, df) == rows - Shape0(df)

\* self.my_df_rows -= self.my_df_rows - self.my_df.shape[0]
Tracked(rows, df) == rows - (rows - Shape0(df))

\* drop_rows with the explicit-labels phase moved before the other two.
DropRowsLabelsFirst(df, rows, dupl, na, labels) ==
    LET s0 == IF Truthy(labels) THEN DropRowsFrom(Ok(df), labels.val, 1)
                                ELSE Ok(df)
        done0 == Truthy(labels) /\ ~s0.err
        rep3 == IF done0 THEN Reported(rows, s0.df) ELSE 0
        m0 == IF done0 THEN Tracked(rows, s0.df) ELSE rows
        d1 == IF dupl THEN PdDropDuplicates(s0.df) ELSE s0.df
        rep1 == IF dupl THEN Reported(m0, d1) ELSE 0
        m1 == IF dupl THEN Tracked(m0, d1) ELSE m0
        d2 == IF na THEN PdDropNa(d1) ELSE d1
        rep2 == IF na THEN Reported(m1, d2) ELSE 0
        m2 == IF na THEN Tracked(m1, d2) ELSE m1
    IN  [df |-> d2, rows |-> m2, err |-> s0.err,
         d1 |-> d1, rep1 |-> rep1, m1 |-> m1,
         d2 |-> d2, rep2 |-> rep2, m2 |-> m2,
         rep3 |-> rep3]

\* MyPreprocessor.drop_rows(dupl, na, labels): the frame, the tracked row
\* count and what was logged after each of the three phases, in the order of
\* the code.  A phase that did not run leaves frame and count as they were
\* and reports nothing (rep 0).
DropRows(df, rows, dupl, na, labels) ==
    LET d1 == IF dupl THEN PdDropDuplicates(df) ELSE df
        rep1 == IF dupl THEN Reported(rows, d1) ELSE 0
        m1 == IF dupl THEN Tracked(rows, d1) ELSE rows
        d2 == IF na THEN PdDropNa(d1) ELSE d1
        rep2 == IF na THEN Reported(m1, d2) ELSE 0
        m2 == IF na THEN Tracked(m1, d2) ELSE m1
        s3 == IF Truthy(labels) THEN DropRowsFrom(Ok(d2), labels.val, 1)
                                ELSE Ok(d2)
        done3 == Truthy(labels) /\ ~s3.err
        rep3 == IF done3 THEN Reported(m2, s3.df) ELSE 0
        m3 == IF done3 THEN Tracked(m2, s3.df) ELSE m2
    IN  [df |-> s3.df, rows |-> m3, err |-> s3.err,
         d1 |-> d1, rep1 |-> rep1, m1 |-> m1,
         d2 |-> d2, rep2 |-> rep2, m2 |-> m2,
         rep3 |-> rep3]

\* recode, auto: auto_dict maps the column's distinct values, in order of
\* first appearance, to 0, 1, 2, ...
AutoDict(df, col_name) ==
    LET u == PdUnique(Column(df, col_name))
    IN  [k \in 1..Len(u) |-> [key |-> u[k], val |-> IntV(k - 1)]]

\* key in pd.unique(self.my_df[col_name]): (array == key).any(); NaN equals
\* nothing, itself included.
InUnique(key, df, col_name) ==
    ~IsNA(key) /\ key \in Range(PdUnique(Column(df, col_name)))

\* recode, customized: corr_dict keeps the entries whose key occurs in the
\* column.
CorrDict(df, col_name, customized) ==
    KeepAt(customized, {k \in 1..Len(customized) :
                           InUnique(customized[k].key, df, col_name)})

RecodeAuto(df, col_name) == PdReplace(df, col_name, AutoDict(df, col_name))

\* recode, customized, with the mapping applied to the whole frame
\* (to_replace = corr_dict) instead of to the one column.
RecodeCustomizedAllColumns(df, col_name, customized) ==
    LET corr == CorrDict(df, col_name, customized)
    IN  [df EXCEPT !.rows =
            [r \in 1..Len(df.rows) |->
                [c \in 1..Len(df.cols) |-> Lookup(corr, df.rows[r][c])]]]

RecodeCustomized(df, col_name, customized) ==
    PdReplace(df, col_name, CorrDict(df, col_name, customized))

\* MyPreprocessor.recode(col_name, auto, customized): the frame it leaves.
Recode(df, col_name, auto, customized) ==
    IF col_name \in Range(df.cols)
    THEN IF ~Truthy(customized) /\ ~auto THEN df
         ELSE IF Truthy(customized) /\ auto THEN df
         ELSE LET d1 == IF auto THEN RecodeAuto(df, col_name) ELSE df
              IN  IF Truthy(customized)
                  THEN RecodeCustomized(d1, col_name, customized.val)
                  ELSE d1
    ELSE df

-----------------------------------------------------------------------------
(* WebAPI.  The stored response is [status_code, body]; the body is the    *)
(* response text as a sequence of tokens.                                  *)

\* Python None.
PyNone == [t |-> "none", keys |-> <<>>, vals |-> <<>>]

Digits == {"0", "1", "2"}
DigitVal(d) == CASE d = "0" -> 0 [] d = "1" -> 1 [] OTHER -> 2
KeyTokens == {"a", "b"}

\* Response.json() on a body: [ok, val].  A body is a number, null, a list
\* of numbers or an object of numbers; anything else does not parse
\* (JSONDecodeError, an Exception).
Json(body) ==
    LET n == Len(body)
        inner == SubSeq(body, 2, n - 1)
        m == Len(inner)
        fail == [ok |-> FALSE, val |-> PyNone]
    IN  IF n = 1 /\ body[1] \in Digits
        THEN [ok |-> TRUE,
              val |-> [t |-> "int", keys |-> <<>>, vals |-> <<DigitVal(body[1])>>]]
        ELSE IF n = 1 /\ body[1] = "null"
        THEN [ok |-> TRUE, val |-> PyNone]
        ELSE IF n >= 2 /\ body[1] = "[" /\ body[n] = "]"
        THEN IF /\ (m = 0 \/ m % 2 = 1)
                /\ \A i \in 1..m : IF i % 2 = 1 THEN inner[i] \in Digits
                                                ELSE inner[i] = ","
             THEN [ok |-> TRUE,
                   val |-> [t |-> "list", keys |-> <<>>,
                            vals |-> [i \in 1..((m + 1) \div 2) |->
                                         DigitVal(inner[2 * i - 1])]]]
             ELSE fail
        ELSE IF n >= 2 /\ body[1] = "{" /\ body[n] = "}"
        THEN IF /\ (m = 0 \/ m % 4 = 3)
                /\ \A i \in 1..m :
                       CASE i % 4 = 1 -> inner[i] \in KeyTokens
                         [] i % 4 = 2 -> inner[i] = ":"
                         [] i % 4 = 3 -> inner[i] \in Digits
                         [] OTHER -> inner[i] = ","
                /\ \A i, j \in 1..m :
                       (i % 4 = 1 /\ j % 4 = 1 /\ i # j) => inner[i] # inner[j]
             THEN [ok |-> TRUE,
                   val |-> [t |-> "dict",
                            keys |-> [i \in 1..((m + 1) \div 4) |-> inner[4 * i - 3]],
                            vals |-> [i \in 1..((m + 1) \div 4) |->
                                         DigitVal(inner[4 * i - 1])]]]
             ELSE fail
        ELSE fail

\* The try block of data_import: raise Exception for a status other than
\* 200, else return self.my_data.json(), which raises when the body does not
\* parse.
DataImportTry(resp) ==
    IF resp.status_code # 200
    THEN [exc |-> TRUE, ret |-> PyNone]
    ELSE LET j == Json(resp.body)
         IN  IF j.ok THEN [exc |-> FALSE, ret |-> j.val]
                     ELSE [exc |-> TRUE, ret |-> PyNone]

\* data_import without its except clause: what the try block raises goes
\* to the caller.
DataImportNoExcept(resp) ==
    LET t == DataImportTry(resp)
    IN  [ret |-> t.ret, raised |-> t.exc]

\* WebAPI.data_import: [ret, raised].  "except Exception" catches whatever
\* the try block raised, logs, and falls off the end (returns None).
DataImport(resp) ==
    LET t == DataImportTry(resp)
    IN  IF t.exc THEN [ret |-> PyNone, raised |-> FALSE]
                 ELSE [ret |-> t.ret, raised |-> FALSE]

-----------------------------------------------------------------------------
(* Arguments the calls are made with.                                      *)

ColLabels == {"x", "y", "z"}

\* Sequences over S with at most two elements.
Lists(S) == {<<>>} \cup {<<a>> : a \in S} \cup {<<a, b>> : a \in S, b \in S}

Entry(k, v) == [key |-> k, val |-> v]

\* Dictionaries with at most two entries, keys from K and values from V
\* (ordered by insertion, keys distinct).
Dicts(K, V) ==
    {<<>>} \cup {<<Entry(k, v)>> : k \in K, v \in V}
           \cup {<<Entry(k[1], v[1]), Entry(k[2], v[2])>> :
                    k \in {q \in K \X K : q[1] # q[2]}, v \in V \X V}

\* {"x": [1,1,3], "y": [2,2,4]}: the rows [1,2], [1,2], [3,4].
DictDupl ==
    <<[key |-> "x", vals |-> <<IntV(1), IntV(1), IntV(3)>>],
      [key |-> "y", vals |-> <<IntV(2), IntV(2), IntV(4)>>]>>
\* {"x": ["b","a","b","c"]}
DictStr ==
    <<[key |-> "x", vals |-> <<StrV("b"), StrV("a"), StrV("b"), StrV("c")>>]>>
\* A column of small integers and a column of strings; rows 2 and 3 agree.
DictCoded ==
    <<[key |-> "x", vals |-> <<IntV(1), IntV(0), IntV(0)>>],
      [key |-> "y", vals |-> <<StrV("b"), StrV("a"), StrV("a")>>]>>
\* Missing values in two of three rows.
DictNA ==
    <<[key |-> "x", vals |-> <<IntV(0), NA, IntV(0)>>],
      [key |-> "y", vals |-> <<StrV("a"), StrV("a"), NA>>]>>

\* dictionary = ...: not given, {} or a dictionary of equally long lists.
DictionaryArgs ==
    {NoArg, Arg(<<>>), Arg(DictDupl), Arg(DictStr), Arg(DictCoded), Arg(DictNA)}

\* path = ...: not given or a path.
PathArgs == {NoArg, Arg(PathCsv), Arg(PathXlsx), Arg(PathTxt)}

\* drop_cols(labels = ...)
ColLabelLists == Lists(ColLabels)

\* rename_cols(labels = ...)
RenameMappings == Dicts({"x", "y"}, ColLabels)

\* drop_rows(labels = ...): not given, or a list (possibly empty).
RowLabelArgs == {NoArg} \cup {Arg(l) : l \in Lists({0, 2})}

\* recode(customized = ...): not given, {} or a mapping of cell values.
CustomizedArgs ==
    {NoArg, Arg(<<>>),
     Arg(<<Entry(StrV("a"), StrV("X")), Entry(StrV("zzz"), StrV("Y"))>>),
     Arg(<<Entry(StrV("a"), StrV("b")), Entry(StrV("b"), StrV("a"))>>),
     Arg(<<Entry(IntV(0), IntV(1)), Entry(IntV(1), IntV(2))>>)}

StatusCodes == {200, 201, 204, 301, 400, 401, 403, 404, 500, 503}

Bodies ==
    {<<"{", "a", ":", "1", "}">>,
     <<"{", "a", ":", "1", ",", "b", ":", "2", "}">>,
     <<"[", "1", ",", "2", "]">>,
     <<"2">>,
     <<"null">>,
     <<"{", "a", ":", "}">>,
     <<"<", "html", ">">>,
     <<>>}

Responses == [status_code : StatusCodes, body : Bodies]

-----------------------------------------------------------------------------
(* The state machine.                                                      *)

NoCall ==
    [op |-> "none", dictionary |-> NoArg, path |-> NoArg, labels |-> <<>>,
     dupl |-> FALSE, na |-> FALSE, rlabels |-> NoArg,
     col_name |-> "", auto |-> FALSE, customized |-> NoArg]

NoPhases ==
    [d1 |-> EmptyDF, rep1 |-> 0, m1 |-> 0,
     d2 |-> EmptyDF, rep2 |-> 0, m2 |-> 0, rep3 |-> 0]

NotCalled == [called |-> FALSE, ret |-> PyNone, raised |-> FALSE]

\* MyPreprocessor.__init__: an empty frame, my_df_rows = its shape[0] = 0.
InitPreprocessor ==
    /\ my_df = EmptyDF
    /\ my_df_rows = Shape0(EmptyDF)
    /\ raised = FALSE
    /\ call = NoCall
    /\ pre = [df |-> EmptyDF, rows |-> 0]
    /\ phases = NoPhases
    /\ ncalls = 0

\* One MyPreprocessor used by its caller; no WebAPI call is made.
Init ==
    /\ InitPreprocessor
    /\ my_data = [status_code |-> 200, body |-> <<"null">>]
    /\ web = NotCalled

\* WebAPI.__init__: requests.get stored whatever the server answered.
InitWeb ==
    /\ InitPreprocessor
    /\ my_data \in Responses
    /\ web = NotCalled

Begin(c) ==
    /\ ncalls < MaxCalls
    /\ ncalls' = ncalls + 1
    /\ call' = c
    /\ pre' = [df |-> my_df, rows |-> my_df_rows]
    /\ UNCHANGED <<my_data, web>>

create_df ==
    \E dictionary \in DictionaryArgs, path \in PathArgs :
        /\ Begin([NoCall EXCEPT !.op = "create_df",
                                !.dictionary = dictionary, !.path = path])
        /\ my_df' = CreateDf(my_df, dictionary, path)
        /\ raised' = FALSE
        /\ phases' = NoPhases
        /\ UNCHANGED my_df_rows

drop_cols ==
    \E labels \in ColLabelLists :
        LET r == DropCols(my_df, labels)
        IN  /\ Begin([NoCall EXCEPT !.op = "drop_cols", !.labels = labels])
            /\ my_df' = r.df
            /\ raised' = r.err
            /\ phases' = NoPhases
        /\ UNCHANGED my_df_rows

rename_cols ==
    \E labels \in RenameMappings :
        LET r == RenameCols(my_df, labels)
        IN  /\ Begin([NoCall EXCEPT !.op = "rename_cols", !.labels = labels])
            /\ my_df' = r.df
            /\ raised' = r.err
            /\ phases' = NoPhases
        /\ UNCHANGED my_df_rows

drop_rows ==
    \E dupl \in BOOLEAN, na \in BOOLEAN, labels \in RowLabelArgs :
        LET r == DropRows(my_df, my_df_rows, dupl, na, labels)
        IN  /\ Begin([NoCall EXCEPT !.op = "drop_rows", !.dupl = dupl,
                                    !.na = na, !.rlabels = labels])
            /\ my_df' = r.df
            /\ my_df_rows' = r.rows
            /\ raised' = r.err
            /\ phases' = [d1 |-> r.d1, rep1 |-> r.rep1, m1 |-> r.m1,
                          d2 |-> r.d2, rep2 |-> r.rep2, m2 |-> r.m2,
                          rep3 |-> r.rep3]

\* pd.unique and replace on a label that several columns carry are not
\* modelled: recode is called with a scheme only on a label that at most one
\* column carries.
recode ==
    \E col_name \in ColLabels, auto \in BOOLEAN, customized \in CustomizedArgs :
        /\ \/ Cardinality({j \in 1..Len(my_df.cols) : my_df.cols[j] = col_name}) <= 1
           \/ Truthy(customized) = auto
        /\ Begin([NoCall EXCEPT !.op = "recode", !.col_name = col_name,
                                !.auto = auto, !.customized = customized])
        /\ my_df' = Recode(my_df, col_name, auto, customized)
        /\ raised' = FALSE
        /\ phases' = NoPhases
        /\ UNCHANGED my_df_rows

data_import ==
    LET r == DataImport(my_data)
    IN  /\ web' = [called |-> TRUE, ret |-> r.ret, raised |-> r.raised]
        /\ UNCHANGED <<my_df, my_df_rows, raised, call, pre, phases, ncalls, my_data>>

Next == create_df \/ drop_cols \/ rename_cols \/ drop_rows \/ recode

NextWeb == data_import

Spec == Init /\ [][Next]_vars

SpecWeb == InitWeb /\ [][NextWeb]_vars

-----------------------------------------------------------------------------
(* Properties.                                                             *)

Distinct(s) == \A i, j \in 1..Len(s) : i # j => s[i] # s[j]

\* Position of the first occurrence of v in s.
FirstPos(s, v) == CHOOSE i \in 1..Len(s) : s[i] = v /\ \A j \in 1..(i - 1) : s[j] # v

\* Number of columns of df labelled l.
Carrying(df, l) == Cardinality({j \in 1..Len(df.cols) : df.cols[j] = l})

IsKey(m, v) == \E k \in 1..Len(m) : m[k].key = v

\* ---- C1 ----------------------------------------------------------------
\* C1 (as stated): after data_import, for every stored response: no
\* exception has propagated; with status code 200 the parsed JSON body was
\* returned; with any other status code None was returned.
C1_Original ==
    web.called =>
        /\ ~web.raised
        /\ IF my_data.status_code = 200
           THEN Json(my_data.body).ok /\ web.ret = Json(my_data.body).val
           ELSE web.ret = PyNone

\* C1 (amended): after data_import no exception has propagated; the parsed
\* JSON body was returned when the status code is 200 and the body parses
\* as JSON ({"a":1} gives the mapping a -> 1); None was returned for every
\* other status code and also for a 200 response whose body does not parse.
C1_DataImport ==
    web.called =>
        /\ ~web.raised
        /\ IF my_data.status_code = 200 /\ Json(my_data.body).ok
           THEN web.ret = Json(my_data.body).val
           ELSE web.ret = PyNone
        /\ my_data = [status_code |-> 200, body |-> <<"{", "a", ":", "1", "}">>]
              => web.ret = [t |-> "dict", keys |-> <<"a">>, vals |-> <<1>>]

\* data_import was called on a 200 response whose body is not JSON.
C1_Witness ==
    /\ web.called
    /\ my_data.status_code = 200
    /\ ~Json(my_data.body).ok
    /\ web.ret = PyNone

\* ---- C2 ----------------------------------------------------------------
\* C2: create_df called with neither or both of dictionary/path, and recode
\* called on an existing column with neither or both of auto/customized,
\* leave the frame (labels and every cell) as it was and raise nothing.
\* An argument counts as supplied when it is truthy, which is what the code
\* tests ({} and "" are not).
C2_MutualExclusion ==
    /\ (call.op = "create_df" /\ Truthy(call.dictionary) = Truthy(call.path))
          => (my_df = pre.df /\ ~raised)
    /\ (/\ call.op = "recode"
        /\ call.col_name \in Range(pre.df.cols)
        /\ Truthy(call.customized) = call.auto)
          => (my_df = pre.df /\ ~raised)

\* create_df was called with both arguments on a frame that holds data.
C2_Witness ==
    /\ call.op = "create_df"
    /\ Truthy(call.dictionary) /\ Truthy(call.path)
    /\ FileExtension(call.path.val) = ExtCsv
    /\ Len(pre.df.rows) > 0
    /\ my_df = pre.df

\* ---- C3 ----------------------------------------------------------------
\* C3: after drop_cols(labels) the columns are the previous columns without
\* those whose label is in the list, in the same order; the cells of the
\* remaining columns and the rows (their labels) are unchanged; nothing is
\* raised, whether or not a label is absent or repeated.
C3_DropCols ==
    call.op = "drop_cols" =>
        LET K == {j \in 1..Len(pre.df.cols) : pre.df.cols[j] \notin Range(call.labels)}
        IN  /\ ~raised
            /\ my_df.cols = KeepAt(pre.df.cols, K)
            /\ my_df.idx = pre.df.idx
            /\ Len(my_df.rows) = Len(pre.df.rows)
            /\ \A r \in 1..Len(pre.df.rows) : my_df.rows[r] = KeepAt(pre.df.rows[r], K)

\* drop_cols was called with a present and an absent label; a column went
\* and another stayed.
C3_Witness ==
    /\ call.op = "drop_cols"
    /\ \E i, j \in 1..Len(call.labels) :
          /\ call.labels[i] \in Range(pre.df.cols)
          /\ call.labels[j] \notin Range(pre.df.cols)
    /\ Len(my_df.cols) = 1
    /\ Len(pre.df.cols) = 2
    /\ Len(my_df.rows) = 3

\* ---- C4 ----------------------------------------------------------------
DedupOf(d, p) ==
    /\ d.cols = p.cols
    /\ Distinct(d.rows)
    /\ Range(d.rows) = Range(p.rows)
    /\ \A i, j \in 1..Len(d.rows) :
          i < j => FirstPos(p.rows, d.rows[i]) < FirstPos(p.rows, d.rows[j])
    /\ d.idx = DefaultIndex(Len(d.rows))

RankOf(s, v) == Cardinality({s[i] : i \in 1..(FirstPos(s, v) - 1)})

\* C5: on a column that exists, recode(col_name, auto=True) puts at every
\* position the rank (0, 1, 2, ...) its value has in the column's order of
\* first appearance, also when the column already holds some of these
\* integers; so two positions hold the same integer exactly when they held
\* the same value.  Labels, the other columns and the row labels stay.
C5_RecodeAuto ==
    (/\ call.op = "recode" /\ call.auto /\ ~Truthy(call.customized)
     /\ Carrying(pre.df, call.col_name) = 1)
        => LET old == Column(pre.df, call.col_name)
               new == Column(my_df, call.col_name)
           IN  /\ ~raised
               /\ my_df.cols = pre.df.cols /\ my_df.idx = pre.df.idx
               /\ Len(my_df.rows) = Len(pre.df.rows)
               /\ \A r \in 1..Len(old) : new[r] = IntV(RankOf(old, old[r]))
               /\ \A r, q \in 1..Len(old) : (new[r] = new[q]) <=> (old[r] = old[q])
               /\ \A r \in 1..Len(old), c \in 1..Len(pre.df.cols) :
                      pre.df.cols[c] # call.col_name
                          => my_df.rows[r][c] = pre.df.rows[r][c]

\* recode(auto=True) ran on a column that held one of the integers being
\* assigned at a position whose rank is another integer.
C5_Witness ==
    /\ call.op = "recode" /\ call.auto /\ ~Truthy(call.customized)
    /\ Carrying(pre.df, call.col_name) = 1
    /\ LET old == Column(pre.df, call.col_name)
       IN  \E r, q \in 1..Len(old) :
              /\ old[r] = IntV(RankOf(old, old[q]))
              /\ old[r] # old[q]
              /\ Column(my_df, call.col_name)[r] # old[r]

\* ---- C6 ----------------------------------------------------------------
\* C6: on a column that exists, recode(col_name, customized=m) replaces
\* every cell of the column that equals a key of m by that key's value
\* (each cell judged by the value it had before the call), leaves the cells
\* that equal no key, the other columns and all labels as they were, and
\* raises nothing for the keys that do not occur.
C6_RecodeCustomized ==
    (/\ call.op = "recode" /\ ~call.auto /\ Truthy(call.customized)
     /\ Carrying(pre.df, call.col_name) = 1)
        => LET m == call.customized.val
           IN  /\ ~raised
               /\ my_df.cols = pre.df.cols /\ my_df.idx = pre.df.idx
               /\ Len(my_df.rows) = Len(pre.df.rows)
               /\ \A r \in 1..Len(pre.df.rows), c \in 1..Len(pre.df.cols) :
                      LET v == pre.df.rows[r][c]
                      IN  IF pre.df.cols[c] = call.col_name /\ IsKey(m, v)
                          THEN \E k \in 1..Len(m) :
                                  m[k].key = v /\ my_df.rows[r][c] = m[k].val
                          ELSE my_df.rows[r][c] = v

\* recode(customized=m) ran with a key that occurs in the column and a key
\* that does not; the first was replaced.
C6_Witness ==
    /\ call.op = "recode" /\ ~call.auto /\ Truthy(call.customized)
    /\ Carrying(pre.df, call.col_name) = 1
    /\ LET m == call.customized.val
           old == Column(pre.df, call.col_name)
       IN  /\ \E k \in 1..Len(m) : m[k].key \notin Range(old)
           /\ \E k \in 1..Len(m) : m[k].key \in Range(old)
           /\ Column(my_df, call.col_name) # old
    /\ ~raised

\* ---- C7 ----------------------------------------------------------------
\* C7: after rename_cols(m), every column whose label (before the call) is
\* a key of m carries that key's new label, every other column keeps its
\* label, a key that labelled no column (before the call) changes nothing,
\* and the cells, their order and the row labels are unchanged: each pair
\* acts on the frame as it was, whatever the other pairs are.
C7_RenameIndependent ==
    call.op = "rename_cols" =>
        /\ ~raised
        /\ my_df.cols = [j \in 1..Len(pre.df.cols) |->
                            Lookup(call.labels, pre.df.cols[j])]
        /\ my_df.idx = pre.df.idx
        /\ my_df.rows = pre.df.rows

\* ---- C8 ----------------------------------------------------------------
\* C8 (as stated): in every reachable state the column labels are pairwise
\* distinct and the row labels are pairwise distinct.
C8_Original == Distinct(my_df.cols) /\ Distinct(my_df.idx)

\* C8 (amended): in every reachable state the row labels are pairwise
\* distinct; the column labels are pairwise distinct whenever create_df
\* loads a frame and stay so under drop_cols, drop_rows and recode; but
\* rename_cols with one pair old -> new, old a column and new the label
\* of another column, leaves two columns labelled new.
C8_Labels ==
    /\ Distinct(my_df.idx)
    /\ (call.op # "rename_cols" /\ Distinct(pre.df.cols)) => Distinct(my_df.cols)
    /\ (call.op = "create_df" /\ my_df # pre.df) => Distinct(my_df.cols)
    /\ (/\ call.op = "rename_cols" /\ Len(call.labels) = 1
        /\ Distinct(pre.df.cols)
        /\ call.labels[1].key \in Range(pre.df.cols)
        /\ call.labels[1].val \in Range(pre.df.cols)
        /\ call.labels[1].val # call.labels[1].key)
           => (~raised /\ Carrying(my_df, call.labels[1].val) = 2)

\* rename_cols gave a column the label of another one.
C8_Witness ==
    /\ call.op = "rename_cols" /\ Len(call.labels) = 1
    /\ Distinct(pre.df.cols)
    /\ ~Distinct(my_df.cols)
    /\ Distinct(my_df.idx) /\ Len(my_df.idx) > 0

C10_RowCounts ==
    call.op = "drop_rows" =>
        /\ call.dupl => /\ phases.rep1 = Shape0(pre.df) - Shape0(phases.d1)
                        /\ phases.m1 = Shape0(phases.d1)
        /\ call.na => /\ phases.rep2 = Shape0(phases.d1) - Shape0(phases.d2)
                      /\ phases.m2 = Shape0(phases.d2)
        /\ Truthy(call.rlabels) =>
                      /\ phases.rep3 = Shape0(phases.d2) - Shape0(my_df)
                      /\ my_df_rows = Shape0(my_df)

====
